---- MODULE Spec2Model ----
(***************************************************************************)
(* Verification model of the conversation visualizer front-end.            *)
(*                                                                         *)
(*  Part I  : the replay scene of ChatInterface.tsx (usePlayback, HUD,     *)
(*            Scene, MessageOrb, useCircleLayout).                         *)
(*  Part II : the live visualizer (AgentAnimation with its socket, the     *)
(*            profile loader and the conversation controls).               *)
(*                                                                         *)
(* Times are held in half-seconds (Sec(n) = 2n): every speed the HUD       *)
(* offers (0.5, 1, 1.5, 2) is a whole number of halves, so a frame of a    *)
(* whole number of seconds advances the clock by a whole number of         *)
(* half-seconds and delta * speed is computed exactly.                     *)
(***************************************************************************)
EXTENDS Integers, Sequences, FiniteSets, TLC

VARIABLES
    \* ---- Part I: replay scene (ChatInterface.tsx) ----
    agents,        \* Scene prop: the roster, a sequence of agent ids
    interactions,  \* Scene prop: the event list, records [id, from, to, t]
    durationProp,  \* Scene prop: the duration override, or Null
    orbDuration,   \* MessageOrb prop `duration` (half-seconds)
    time,          \* usePlayback: const [time, setTime]
    playing,       \* usePlayback: const [playing, setPlaying]
    speed,         \* Scene: const [speed, setSpeed], in halves (2 = 1x)
    speedRef,      \* usePlayback: speedRef.current, in halves
    duration,      \* Scene: the memoized duration (useMemo over the two props)
    positions,     \* Scene: the memoized useCircleLayout(agents, 6)
    rendered,      \* ids of the MessageOrb elements of the last render
    lastOp,        \* history: the handler that produced this state
    lastArg,       \* history: the target of that handler when it is a seek, else 0
    probeTime,     \* history: a clock value picked at mount, or Null
    probeShown     \* history: what was rendered on the first and on the latest
                   \* arrival of the clock at probeTime

VARIABLES
    \* ---- Part II: live visualizer (AgentAnimation with the socket) ----
    phase,              \* "constructed", "mounted" (mount effect ran) or "unmounted"
    ws,                 \* const [ws, setWs]: Null or the socket handle
    effectWs,           \* the `ws` the mount effect's cleanup closed over
    socket,             \* the WebSocket: "none", "CONNECTING", "OPEN",
                        \* "FAILED" (error fired, close event pending), "CLOSED"
    connectionStatus,   \* const [connectionStatus, setConnectionStatus]
    profilesReq,        \* loadProfiles: "idle", "pending", "done", "failed"
    availableProfiles,  \* const [availableProfiles, ...]: Some(map) or Null (undefined)
    isRunning,          \* const [isRunning, setIsRunning]
    messages,           \* const [messages, setMessages]
    liveAgents,         \* const [agents, setAgents] of AgentAnimation
    pendingStarts,      \* start requests awaiting their response
    dateNow,            \* Date.now() / 1000, read when a record is built
    agentMessages,      \* Scene: const [agentMessages, ...], speaker -> bubble text
    timers,             \* Scene: the pending setTimeout callbacks, [speaker, due]
    currentTime,        \* Scene: const [currentTime, setCurrentTime], in seconds
    rosterAtStart,      \* history: the roster when startConversation last sent
                        \* its request
    frameDropped        \* history: a frame has been dropped since construction

VARIABLES
    \* ---- Part III: what one render computes from its props ----
    layoutAgents,   \* useCircleLayout: the roster given, a sequence of ids
    layoutRadius,   \* useCircleLayout: the radius given
    layoutMap,      \* useCircleLayout: Null, or Some(id -> Vec3) once computed
    orbProps,       \* MessageOrb: [fromPos, toPos, height, bornAt, duration, now]
    orbPoint,       \* MessageOrb: <<"unrendered">>, <<"null">> or <<"group", p>>
    bubbleMessage,  \* AgentAvatar: the currentMessage prop, a sequence of characters
    bubble          \* AgentAvatar: Null, or Some([width, text]) once rendered

VARIABLES
    \* ---- Part IV: the simulated interaction, the chat, the payment ----
    simAgents,          \* AgentInteraction: agent id -> isActive
    conversation,       \* AgentInteraction: const [conversation, setConversation]
    simRunning,         \* AgentInteraction: const [isRunning, setIsRunning]
    currentTurn,        \* AgentInteraction: const [currentTurn, setCurrentTurn]
    maxTurns,           \* AgentInteraction: const [maxTurns, setMaxTurns]
    isLoading,          \* AgentInteraction: const [isLoading, setIsLoading]
    compatibilityScore, \* AgentInteraction: Null or Some(score)
    runs,               \* AgentInteraction: the startConversation calls made, each
                        \* with the position of its loop
    chatMessages,       \* ChatInterface: const [messages, setMessages]
    inputValue,         \* ChatInterface: const [inputValue, setInputValue]
    isTyping,           \* ChatInterface: const [isTyping, setIsTyping]
    chatCalls,          \* ChatInterface: the callChatAPI calls awaiting their answer
    chatSent,           \* history: how many messages have been sent
    showPaymentModal,   \* NetworkAccess: const [showPaymentModal, ...]
    hasAccess,          \* NetworkAccess: const [hasAccess, setHasAccess]
    isProcessing,       \* PaymentModal: const [isProcessing, setIsProcessing]
    paymentSuccess,     \* PaymentModal: const [paymentSuccess, setPaymentSuccess]
    formData,           \* PaymentModal: const [formData, setFormData]
    payTimers,          \* PaymentModal: the pending setTimeout callbacks
    submits             \* history: how many times the form has been submitted

renderVars == <<layoutAgents, layoutRadius, layoutMap, orbProps, orbPoint,
                bubbleMessage, bubble>>

interactionVars == <<simAgents, conversation, simRunning, currentTurn, maxTurns,
                     isLoading, compatibilityScore, runs>>

chatVars == <<chatMessages, inputValue, isTyping, chatCalls, chatSent>>

paymentVars == <<showPaymentModal, hasAccess, isProcessing, paymentSuccess,
                 formData, payTimers, submits>>

viewVars == <<interactionVars, chatVars, paymentVars>>

\* the state of Scene and usePlayback; lastOp and lastArg are shared history
sceneVars == <<agents, interactions, durationProp, orbDuration, time, playing,
               speed, speedRef, duration, positions, rendered, probeTime, probeShown>>

liveVars == <<phase, ws, effectWs, socket, connectionStatus, profilesReq,
              availableProfiles, isRunning, messages, liveAgents, pendingStarts,
              dateNow, agentMessages, timers, currentTime, rosterAtStart,
              frameDropped>>

vars == <<sceneVars, lastOp, lastArg, liveVars, renderVars, viewVars>>

\* An optional value is the empty sequence (undefined) or <<v>>.
Null == <<>>
Some(v) == <<v>>

\* ------------------------------------------------------------------ bounds
MaxDelta == 2        \* longest frame, in seconds
MaxEvents == 2       \* longest event list
SeekMargin == 2      \* how far outside [0, duration] a seek target may lie
MaxMessages == 2     \* longest message sequence of the live visualizer
MaxPending == 1      \* most start requests in flight at once
EpochAtMount == 100  \* Date.now() / 1000 when the live visualizer is constructed
MaxElapsed == 6      \* seconds of wall-clock time followed after construction

\* --------------------------------------------------------- program constants
Sec(n) == 2 * n                       \* seconds -> half-seconds
MinDuration == Sec(6)                 \* Math.max(6, ...)
TrailingMargin == Sec(3)              \* ... + 3
DefaultOrbDuration == Sec(2)          \* MessageOrb duration = 2.0
SpeedOptions == {1, 2, 3, 4}          \* HUD <option>s 0.5, 1, 1.5, 2 in halves
InitialSpeed == 2                     \* useState(1)
BubbleSeconds == 5                    \* setTimeout(..., 5000)

Max(a, b) == IF a >= b THEN a ELSE b
Min(a, b) == IF a <= b THEN a ELSE b

\* ------------------------------------------------------------ circle layout
\* Mutant of useCircleLayout: the ring is closed, the last slot falling on the
\* first (the angle step is 1 / (n - 1) of a turn).
useCircleLayoutClosed(roster) ==
    LET n == Max(Len(roster) - 1, 1)
        ids == {roster[i] : i \in 1..Len(roster)}
        lastIndex(id) == CHOOSE i \in 1..Len(roster) :
                            /\ roster[i] = id
                            /\ \A j \in 1..Len(roster) : roster[j] = id => j <= i
    IN  [id \in ids |-> [index |-> lastIndex(id) - 1, count |-> n]]

\* useCircleLayout: id -> the slot (index i of n) whose angle is (i / n) * TAU.
\* forEach + map.set: a repeated id keeps its last index.
useCircleLayout(roster) ==
    LET n == Max(Len(roster), 1)
        ids == {roster[i] : i \in 1..Len(roster)}
        lastIndex(id) == CHOOSE i \in 1..Len(roster) :
                            /\ roster[i] = id
                            /\ \A j \in 1..Len(roster) : roster[j] = id => j <= i
    IN  [id \in ids |-> [index |-> lastIndex(id) - 1, count |-> n]]

\* --------------------------------------------------------------- MessageOrb
\* tNorm = (now - bornAt) / duration as the fraction <<numerator, denominator>>;
\* the two comparisons of `if (tNorm < 0 || tNorm > 1) return null`.
TNorm(now, bornAt, d) == <<now - bornAt, d>>

FracLtZero(q) == \/ (q[2] > 0 /\ q[1] < 0)
                 \/ (q[2] < 0 /\ q[1] > 0)
                 \/ (q[2] = 0 /\ q[1] < 0)            \* -Infinity

FracGtOne(q) == \/ (q[2] > 0 /\ q[1] > q[2])
                \/ (q[2] < 0 /\ q[1] < q[2])
                \/ (q[2] = 0 /\ q[1] > 0)             \* +Infinity

\* Mutant of MessageOrb: the arrival instant is already hidden (tNorm >= 1).
MessageOrbHiddenOnArrival(bornAt, d, now) ==
    LET tNorm == TNorm(now, bornAt, d)
    IN  ~(FracLtZero(tNorm) \/ FracGtOne(tNorm) \/ tNorm[1] = tNorm[2])

\* TRUE when MessageOrb returns an element, FALSE when it returns null.
MessageOrb(bornAt, d, now) ==
    LET tNorm == TNorm(now, bornAt, d)
    IN  ~(FracLtZero(tNorm) \/ FracGtOne(tNorm))

\* ------------------------------------------------------------------- Scene
MaxT(list) == CHOOSE m \in {list[i].t : i \in 1..Len(list)} :
                 \A i \in 1..Len(list) : list[i].t <= m

\* Mutant of SceneDuration: the trailing margin is not added.
SceneDurationNoMargin(list, override) ==
    IF override # Null THEN override[1]
    ELSE IF list = <<>> THEN MinDuration
    ELSE Max(MinDuration, MaxT(list))

\* durationProp ?? Math.max(6, Math.max(...interactions.map(m => m.t)) + 3)
\* (Math.max() of no arguments is -Infinity, so an empty list gives 6).
SceneDuration(list, override) ==
    IF override # Null THEN override[1]
    ELSE IF list = <<>> THEN MinDuration
    ELSE Max(MinDuration, MaxT(list) + TrailingMargin)

\* interactions.map(...): the ids of the orbs the render returns at clock `now`.
SceneOrbs(layout, list, d, now) ==
    { list[i].id : i \in { j \in 1..Len(list) :
        /\ list[j].from \in DOMAIN layout
        /\ list[j].to \in DOMAIN layout
        /\ MessageOrb(list[j].t, d, now) } }

\* ------------------------------------------------------------- usePlayback
\* Mutant of TickTime: the ceiling is not applied.
TickTimeUnclamped(t, delta, sp, dur) == t + delta * sp

\* Mutant of TickTime: the clock loops to 0 when it passes the ceiling.
TickTimeLooping(t, delta, sp, dur) ==
    LET next == t + delta * sp
    IN  IF next > dur THEN 0 ELSE next

\* the setTime updater of the frame callback
TickTime(t, delta, sp, dur) ==
    LET next == t + delta * sp
    IN  IF next > dur THEN dur ELSE next

\* Mutant of SeekTime: the floor at 0 is missing.
SeekTimeNoFloor(t, dur) == Min(dur, t)

\* Math.max(0, Math.min(duration, t))
SeekTime(t, dur) == Max(0, Min(dur, t))

\* Mutant of Render: orbs are added when their transit starts and never removed
\* (an imperative animation with a state of its own).
RenderKeepingOrbs(newTime, op, arg) ==
    LET shown == rendered \cup SceneOrbs(positions, interactions, orbDuration, newTime)
        arrives == Some(newTime) = probeTime /\ newTime # time
    IN  /\ rendered' = shown
        /\ lastOp' = op
        /\ lastArg' = arg
        /\ probeShown' = IF ~arrives THEN probeShown
                         ELSE IF probeShown = <<>> THEN <<shown>>
                         ELSE <<probeShown[1], shown>>
        /\ UNCHANGED <<agents, interactions, durationProp, orbDuration, duration,
                       positions, probeTime>>
        /\ UNCHANGED liveVars
        /\ UNCHANGED renderVars
        /\ UNCHANGED viewVars

\* Every state change re-renders Scene (lines 622-647): the orbs are recomputed
\* from the new clock.  The history notes the handler, and what is shown each
\* time the clock arrives at probeTime (the first arrival and the latest one).
Render(newTime, op, arg) ==
    LET shown == SceneOrbs(positions, interactions, orbDuration, newTime)
        arrives == Some(newTime) = probeTime /\ newTime # time
    IN  /\ rendered' = shown
        /\ lastOp' = op
        /\ lastArg' = arg
        /\ probeShown' = IF ~arrives THEN probeShown
                         ELSE IF probeShown = <<>> THEN <<shown>>
                         ELSE <<probeShown[1], shown>>
        /\ UNCHANGED <<agents, interactions, durationProp, orbDuration, duration,
                       positions, probeTime>>
        /\ UNCHANGED liveVars
        /\ UNCHANGED renderVars
        /\ UNCHANGED viewVars

\* Mutant of Tick: the frame callback does not look at the playing flag.
TickWhilePaused(delta) ==
    /\ time' = TickTime(time, delta, speedRef, duration)
    /\ UNCHANGED <<playing, speed, speedRef>>
    /\ Render(time', "tick", 0)

\* useFrame((_, delta) => { if (!playing) return; setTime(...) })
Tick(delta) ==
    /\ time' = IF playing THEN TickTime(time, delta, speedRef, duration) ELSE time
    /\ UNCHANGED <<playing, speed, speedRef>>
    /\ Render(time', "tick", 0)

play ==
    /\ playing' = TRUE
    /\ UNCHANGED <<time, speed, speedRef>>
    /\ Render(time', "play", 0)

pause ==
    /\ playing' = FALSE
    /\ UNCHANGED <<time, speed, speedRef>>
    /\ Render(time', "pause", 0)

seek(t) ==
    /\ time' = SeekTime(t, duration)
    /\ UNCHANGED <<playing, speed, speedRef>>
    /\ Render(time', "seek", t)

\* HUD onSpeed = setSpeed: the state changes now, the ref in the effect below.
setSpeed(s) ==
    /\ speed' = s
    /\ UNCHANGED <<time, playing, speedRef>>
    /\ Render(time', "setSpeed", 0)

\* useEffect(() => { speedRef.current = speed }, [speed]): a passive effect,
\* run after the render that setSpeed caused has been committed.
SyncSpeedRef ==
    /\ speedRef # speed
    /\ speedRef' = speed
    /\ UNCHANGED <<time, playing, speed>>
    /\ Render(time', "effect", 0)

\* ------------------------------------------------------------------- inputs
Roster == <<"agent_alice", "agent_bob", "human">>
Events == { [from |-> "agent_alice", to |-> "agent_bob", t |-> 1],
            [from |-> "agent_bob", to |-> "human", t |-> Sec(4)],
            [from |-> "agent_bob", to |-> "stranger", t |-> 3] }

\* AgentAnimation: .map((m, i) => ({ id: `evt_${i}`, ...m }))
WithIds(list) == [i \in 1..Len(list) |->
                    [id |-> "evt_" \o ToString(i - 1), from |-> list[i].from,
                     to |-> list[i].to, t |-> list[i].t]]

\* the event lists: up to MaxEvents events, no event twice
EventLists ==
    UNION { { l \in [1..n -> Events] : \A i, j \in 1..n : l[i] = l[j] => i = j }
            : n \in 0..MaxEvents }
DurationProps == {Null, Some(Sec(5))}
OrbDurations == {DefaultOrbDuration, Sec(4)}

MaxDuration == Max(MinDuration, Sec(4) + TrailingMargin)
SeekTargets == (0 - SeekMargin)..(MaxDuration + SeekMargin)

\* ---- AgentAnimation of the live visualizer, as constructed ----
UserAgent == [id |-> "user", name |-> "You", color |-> "#FBBF24",
              emoji |-> "person", isActive |-> FALSE]

\* the state after construction, before the mount effect has run
Constructed ==
    /\ phase = "constructed"
    /\ ws = Null
    /\ effectWs = Null
    /\ socket = "none"
    /\ connectionStatus = "disconnected"
    /\ profilesReq = "idle"
    /\ availableProfiles = Some(<<>>)          \* useState({})
    /\ isRunning = FALSE
    /\ messages = <<>>
    /\ liveAgents = <<UserAgent>>
    /\ pendingStarts = 0
    /\ agentMessages = <<>>                    \* useState({})
    /\ timers = {}
    /\ currentTime = 0                        \* useState(0)
    /\ rosterAtStart = <<>>
    /\ frameDropped = FALSE

\* In the runs of the replay scene the live visualizer stays as constructed.
NoLive == Constructed /\ dateNow = 0

\* ---- Part III at rest: nothing given, nothing computed ----
Unrendered == <<"unrendered">>

NoLayout == layoutAgents = <<>> /\ layoutRadius = 0 /\ layoutMap = Null
NoOrb == orbProps = Null /\ orbPoint = Unrendered
NoBubble == bubbleMessage = <<>> /\ bubble = Null
NoRender == NoLayout /\ NoOrb /\ NoBubble

\* ---- Part IV as constructed ----
DefaultMaxTurns == 8                           \* useState(8)

FormFields == {"cardNumber", "expiryDate", "cvv", "name"}
EmptyForm == [field \in FormFields |-> <<>>]

\* AgentInteraction, ChatInterface (with its greeting), PaymentModal and
\* NetworkAccess as constructed
NoViews ==
    /\ simAgents = [id \in {"1", "2"} |-> TRUE]
    /\ conversation = <<>>
    /\ simRunning = FALSE
    /\ currentTurn = 0
    /\ maxTurns = DefaultMaxTurns
    /\ isLoading = FALSE
    /\ compatibilityScore = Null
    /\ runs = <<>>
    /\ chatMessages = <<[seq |-> 0, isUser |-> FALSE, text |-> <<"greeting">>]>>
    /\ inputValue = <<>>
    /\ isTyping = FALSE
    /\ chatCalls = {}
    /\ chatSent = 0
    /\ showPaymentModal = FALSE
    /\ hasAccess = FALSE
    /\ isProcessing = FALSE
    /\ paymentSuccess = FALSE
    /\ formData = EmptyForm
    /\ payTimers = {}
    /\ submits = 0

Mounted(lists, overrides, durations, probes) ==
    /\ agents = Roster
    /\ interactions \in {WithIds(l) : l \in lists}
    /\ durationProp \in overrides
    /\ orbDuration \in durations
    /\ time = 0
    /\ playing = TRUE                       \* autoPlay: true
    /\ speed = InitialSpeed
    /\ speedRef = InitialSpeed              \* useRef(speed)
    /\ duration = SceneDuration(interactions, durationProp)
    /\ positions = useCircleLayout(agents)
    /\ rendered = SceneOrbs(positions, interactions, orbDuration, 0)
    /\ lastOp = "mount"
    /\ lastArg = 0
    /\ probeTime \in probes
    /\ probeShown = <<>>
    /\ NoLive
    /\ NoRender
    /\ NoViews

Init == Mounted(EventLists, DurationProps, OrbDurations, {Null})

Next ==
    \/ \E delta \in 0..MaxDelta : Tick(delta)
    \/ play
    \/ pause
    \/ \E t \in SeekTargets : seek(t)
    \/ \E s \in SpeedOptions : setSpeed(s)
    \/ SyncSpeedRef

Spec == Init /\ [][Next]_vars

\* The replay runs: a probe time is armed and the scene is mounted with its
\* default props; the clock is driven by frames, play, pause and seeks.
InitReplay ==
    Mounted(EventLists, {Null}, {DefaultOrbDuration}, {Some(t) : t \in 1..MaxDuration})

NextReplay ==
    \/ \E delta \in 0..MaxDelta : Tick(delta)
    \/ play
    \/ pause
    \/ \E t \in SeekTargets : seek(t)

SpecReplay == InitReplay /\ [][NextReplay]_vars

(***************************************************************************)
(* Part II: the live visualizer.                                           *)
(***************************************************************************)
\* setState of an unmounted component changes nothing
Alive == phase = "mounted"

\* ---- inputs: what the backend may answer and push ----
MyName == "Michael"
TargetName == "Alice"
ProfileName(id) == IF id = "my_agent" THEN MyName ELSE TargetName
ProfileMaps == { [id \in ids |-> [name |-> ProfileName(id)]]
                 : ids \in SUBSET {"my_agent", "person_alice"} }
\* data.profiles of the /api/profiles answer: a mapping, or undefined
ProfileAnswers == {Null} \cup {Some(m) : m \in ProfileMaps}

TurnNumbers == {1, 2}
Frames ==
    { [parses |-> FALSE, type |-> "", conversation_id |-> "", speaker |-> "",
       message |-> "", turn_number |-> 0, is_finished |-> FALSE],
      [parses |-> TRUE, type |-> "pong", conversation_id |-> "", speaker |-> "",
       message |-> "", turn_number |-> 0, is_finished |-> FALSE] }
    \cup
    { [parses |-> TRUE, type |-> "conversation_update", conversation_id |-> "conv",
       speaker |-> sp, message |-> "hi", turn_number |-> n, is_finished |-> fin]
      : sp \in {"system", MyName, TargetName}, n \in TurnNumbers, fin \in BOOLEAN }

Live(op) ==
    /\ lastOp' = op
    /\ lastArg' = 0
    /\ rosterAtStart' = IF op = "start" THEN liveAgents ELSE rosterAtStart
    /\ frameDropped' = (frameDropped \/ op = "dropped")
    /\ UNCHANGED sceneVars
    /\ UNCHANGED renderVars
    /\ UNCHANGED viewVars

\* ---- mount effect: loadProfiles(); connectWebSocket() ----
\* connectWebSocket: setConnectionStatus('connecting'); new WebSocket(url);
\* setWs(websocket).  The cleanup closes over the `ws` of the first render.
MountEffect ==
    /\ phase = "constructed"
    /\ phase' = "mounted"
    /\ profilesReq' = "pending"
    /\ connectionStatus' = "connecting"
    /\ socket' = "CONNECTING"
    /\ ws' = Some("websocket")
    /\ effectWs' = ws
    /\ UNCHANGED <<availableProfiles, isRunning, messages, liveAgents,
                   pendingStarts, dateNow,
                   agentMessages, timers, currentTime>>
    /\ Live("connect")

\* return () => { if (ws) { ws.close() } }
Unmount ==
    /\ phase = "mounted"
    /\ phase' = "unmounted"
    /\ socket' = IF effectWs # Null /\ socket \in {"CONNECTING", "OPEN"}
                 THEN "FAILED" ELSE socket
    /\ UNCHANGED <<ws, effectWs, connectionStatus, profilesReq, availableProfiles,
                   isRunning, messages, liveAgents, pendingStarts, dateNow,
                   agentMessages, timers, currentTime>>
    /\ Live("unmount")

\* ---- loadProfiles ----
\* setAvailableProfiles(data.profiles); const myName = data.profiles?.['my_agent']?.name
\* if (myName) setAgents(prev => [{ ...prev[0], name: myName }, ...prev.slice(1)])
RenameUser(roster, answer) ==
    IF answer # Null /\ "my_agent" \in DOMAIN answer[1]
    THEN <<[roster[1] EXCEPT !.name = answer[1]["my_agent"].name]>> \o Tail(roster)
    ELSE roster

ProfilesLoaded(answer) ==
    /\ profilesReq = "pending"
    /\ profilesReq' = "done"
    /\ availableProfiles' = IF Alive THEN answer ELSE availableProfiles
    /\ liveAgents' = IF Alive THEN RenameUser(liveAgents, answer) ELSE liveAgents
    /\ UNCHANGED <<phase, ws, effectWs, socket, connectionStatus, isRunning,
                   messages, pendingStarts, dateNow,
                   agentMessages, timers, currentTime>>
    /\ Live("profiles")

\* catch (error) { console.error(...) }
ProfilesFailed ==
    /\ profilesReq = "pending"
    /\ profilesReq' = "failed"
    /\ UNCHANGED <<phase, ws, effectWs, socket, connectionStatus, availableProfiles,
                   isRunning, messages, liveAgents, pendingStarts, dateNow,
                   agentMessages, timers, currentTime>>
    /\ Live("profiles-failed")

\* ---- socket handlers ----
\* The browser fires open once, from CONNECTING; error is followed by close and
\* nothing else; nothing is fired after close.
onopen ==
    /\ socket = "CONNECTING"
    /\ socket' = "OPEN"
    /\ connectionStatus' = IF Alive THEN "connected" ELSE connectionStatus
    /\ UNCHANGED <<phase, ws, effectWs, profilesReq, availableProfiles, isRunning,
                   messages, liveAgents, pendingStarts, dateNow,
                   agentMessages, timers, currentTime>>
    /\ Live("onopen")

\* Mutant of onclose: the handler connects again.
oncloseReconnecting ==
    /\ socket \in {"CONNECTING", "OPEN", "FAILED"}
    /\ socket' = "CONNECTING"
    /\ connectionStatus' = IF Alive THEN "connecting" ELSE connectionStatus
    /\ UNCHANGED <<phase, ws, effectWs, profilesReq, availableProfiles, isRunning,
                   messages, liveAgents, pendingStarts, dateNow,
                   agentMessages, timers, currentTime>>
    /\ Live("onclose")

onclose ==
    /\ socket \in {"CONNECTING", "OPEN", "FAILED"}
    /\ socket' = "CLOSED"
    /\ connectionStatus' = IF Alive THEN "disconnected" ELSE connectionStatus
    /\ UNCHANGED <<phase, ws, effectWs, profilesReq, availableProfiles, isRunning,
                   messages, liveAgents, pendingStarts, dateNow,
                   agentMessages, timers, currentTime>>
    /\ Live("onclose")

onerror ==
    /\ socket \in {"CONNECTING", "OPEN"}
    /\ socket' = "FAILED"
    /\ connectionStatus' = IF Alive THEN "disconnected" ELSE connectionStatus
    /\ UNCHANGED <<phase, ws, effectWs, profilesReq, availableProfiles, isRunning,
                   messages, liveAgents, pendingStarts, dateNow,
                   agentMessages, timers, currentTime>>
    /\ Live("onerror")

\* `${update.conversation_id}_${update.turn_number}`
MessageId(update) == update.conversation_id \o "_" \o ToString(update.turn_number)

NewMessage(update, now) ==
    [id |-> MessageId(update), speaker |-> update.speaker, message |-> update.message,
     timestamp |-> now, turnNumber |-> update.turn_number]

\* prev.map(agent => ({ ...agent, isActive: agent.name === speaker || agent.name === 'You' }))
MarkActive(roster, speaker) ==
    [i \in 1..Len(roster) |->
        [roster[i] EXCEPT !.isActive = (roster[i].name = speaker \/ roster[i].name = "You")]]

HandledAs(frame) ==
    IF ~frame.parses \/ frame.type # "conversation_update" THEN "dropped"
    ELSE IF frame.speaker # "system" THEN "chat"
    ELSE IF frame.is_finished THEN "system-finished" ELSE "system"

\* Mutant of handleWebSocketMessage: the system line is not filtered out.
handleWebSocketMessageNoFilter(data) ==
    /\ isRunning' = isRunning
    /\ messages' = messages \o <<NewMessage(data, dateNow)>>
    /\ liveAgents' = MarkActive(liveAgents, data.speaker)

\* Mutant of handleWebSocketMessage: the new record is put in front.
handleWebSocketMessagePrepending(data) ==
    IF data.speaker = "system"
    THEN /\ isRunning' = IF data.is_finished THEN FALSE ELSE isRunning
         /\ UNCHANGED <<messages, liveAgents>>
    ELSE /\ isRunning' = isRunning
         /\ messages' = <<NewMessage(data, dateNow)>> \o messages
         /\ liveAgents' = MarkActive(liveAgents, data.speaker)

\* handleWebSocketMessage(data), data.type = 'conversation_update'
handleWebSocketMessage(data) ==
    IF data.speaker = "system"
    THEN /\ isRunning' = IF data.is_finished THEN FALSE ELSE isRunning
         /\ UNCHANGED <<messages, liveAgents>>
    ELSE /\ isRunning' = isRunning
         /\ messages' = messages \o <<NewMessage(data, dateNow)>>
         /\ liveAgents' = MarkActive(liveAgents, data.speaker)

\* setAgentMessages(prev => ({ ...prev, [speaker]: message }))
SetBubble(bubbles, speaker, text) ==
    [s \in DOMAIN bubbles \cup {speaker} |-> IF s = speaker THEN text ELSE bubbles[s]]

\* const updated = { ...prev }; delete updated[speaker], for the speakers given
DeleteBubbles(bubbles, speakers) ==
    [s \in DOMAIN bubbles \ speakers |-> bubbles[s]]

\* Scene, useEffect(..., [messages]), run when the render commits a new
\* `messages`: the latest record sets its speaker's bubble and starts a timeout
\* of 5000 ms; the effect returns no cleanup and keeps no timer handle.
SceneMessagesEffect ==
    IF messages' # messages /\ Len(messages') > 0
    THEN LET latestMessage == messages'[Len(messages')]
         IN  /\ agentMessages' = SetBubble(agentMessages, latestMessage.speaker,
                                           latestMessage.message)
             /\ timers' = timers \cup {[speaker |-> latestMessage.speaker,
                                        due |-> dateNow + BubbleSeconds]}
    ELSE UNCHANGED <<agentMessages, timers>>

\* Mutant of onmessage: a frame that cannot be handled takes the socket down.
onmessageFatal(frame) ==
    /\ socket = "OPEN"
    /\ (HandledAs(frame) = "chat" /\ Alive) => Len(messages) < MaxMessages
    /\ IF Alive /\ HandledAs(frame) # "dropped"
       THEN handleWebSocketMessage(frame)
       ELSE UNCHANGED <<isRunning, messages, liveAgents>>
    /\ SceneMessagesEffect
    /\ socket' = IF HandledAs(frame) = "dropped" THEN "FAILED" ELSE socket
    /\ UNCHANGED <<phase, ws, effectWs, connectionStatus, profilesReq,
                   availableProfiles, pendingStarts, dateNow, currentTime>>
    /\ Live(HandledAs(frame))

\* websocket.onmessage: JSON.parse(event.data), then handleWebSocketMessage.
\* A frame that does not parse makes JSON.parse throw inside the handler.
onmessage(frame) ==
    /\ socket = "OPEN"
    /\ (HandledAs(frame) = "chat" /\ Alive) => Len(messages) < MaxMessages
    /\ IF Alive /\ HandledAs(frame) # "dropped"
       THEN handleWebSocketMessage(frame)
       ELSE UNCHANGED <<isRunning, messages, liveAgents>>
    /\ SceneMessagesEffect
    /\ UNCHANGED <<phase, ws, effectWs, socket, connectionStatus, profilesReq,
                   availableProfiles, pendingStarts, dateNow, currentTime>>
    /\ Live(HandledAs(frame))

\* ---- conversation controls ----
NewAgent(name) == [id |-> "person_alice", name |-> name, color |-> "#93C5FD",
                   emoji |-> "robot", isActive |-> TRUE]

\* Mutant of StartRoster: the partner is appended to whatever the roster holds.
StartRosterAppending(roster, profiles) ==
    IF "person_alice" \in DOMAIN profiles
    THEN roster \o <<NewAgent(profiles["person_alice"].name)>>
    ELSE roster

\* setAgents(prev => [{ ...prev[0], isActive: true,
\*                      name: availableProfiles['my_agent']?.name || prev[0].name }, newAgent])
StartRoster(roster, profiles) ==
    IF "person_alice" \in DOMAIN profiles
    THEN << [roster[1] EXCEPT !.isActive = TRUE,
                              !.name = IF "my_agent" \in DOMAIN profiles
                                       THEN profiles["my_agent"].name
                                       ELSE roster[1].name],
            NewAgent(profiles["person_alice"].name) >>
    ELSE roster

\* Mutant of startConversation: the guard looks at the running flag only.
startConversationUnguarded ==
    /\ Alive
    /\ IF isRunning
       THEN /\ UNCHANGED <<isRunning, messages, liveAgents, pendingStarts>>
            /\ Live("start-ignored")
       ELSE /\ isRunning' = TRUE
            /\ messages' = <<>>
            /\ IF availableProfiles = Null
               THEN /\ UNCHANGED <<liveAgents, pendingStarts>>
                    /\ Live("start-threw")
               ELSE /\ pendingStarts < MaxPending
                    /\ liveAgents' = StartRoster(liveAgents, availableProfiles[1])
                    /\ pendingStarts' = pendingStarts + 1
                    /\ Live("start")
    /\ UNCHANGED <<phase, ws, effectWs, socket, connectionStatus, profilesReq,
                   availableProfiles, dateNow, agentMessages, timers, currentTime>>

\* startConversation.  With availableProfiles undefined the property read
\* availableProfiles['person_alice'] throws after the two setState calls, and
\* no request is sent.
startConversation ==
    /\ Alive
    /\ IF isRunning \/ connectionStatus # "connected"
       THEN /\ UNCHANGED <<isRunning, messages, liveAgents, pendingStarts>>
            /\ Live("start-ignored")
       ELSE /\ isRunning' = TRUE
            /\ messages' = <<>>
            /\ IF availableProfiles = Null
               THEN /\ UNCHANGED <<liveAgents, pendingStarts>>
                    /\ Live("start-threw")
               ELSE /\ pendingStarts < MaxPending
                    /\ liveAgents' = StartRoster(liveAgents, availableProfiles[1])
                    /\ pendingStarts' = pendingStarts + 1
                    /\ Live("start")
    /\ UNCHANGED <<phase, ws, effectWs, socket, connectionStatus, profilesReq,
                   availableProfiles, dateNow,
                   agentMessages, timers, currentTime>>

\* the response is ok: console.log only
StartSucceeded ==
    /\ pendingStarts > 0
    /\ pendingStarts' = pendingStarts - 1
    /\ UNCHANGED <<phase, ws, effectWs, socket, connectionStatus, profilesReq,
                   availableProfiles, isRunning, messages, liveAgents, dateNow,
                   agentMessages, timers, currentTime>>
    /\ Live("start-ok")

\* !response.ok or the fetch rejected: catch { setIsRunning(false) }
StartFailed ==
    /\ pendingStarts > 0
    /\ pendingStarts' = pendingStarts - 1
    /\ isRunning' = IF Alive THEN FALSE ELSE isRunning
    /\ UNCHANGED <<phase, ws, effectWs, socket, connectionStatus, profilesReq,
                   availableProfiles, messages, liveAgents, dateNow,
                   agentMessages, timers, currentTime>>
    /\ Live("start-failed")

stopConversation ==
    /\ Alive
    /\ isRunning' = FALSE
    /\ UNCHANGED <<phase, ws, effectWs, socket, connectionStatus, profilesReq,
                   availableProfiles, messages, liveAgents, pendingStarts, dateNow,
                   agentMessages, timers, currentTime>>
    /\ Live("stop")

\* ---- wall clock ----
\* A second passes.  The frames rendered in it add their deltas, one second
\* in all, to the scene clock (useFrame: setCurrentTime(t => t + delta)), and
\* the timeouts that are due by then run.  Each deletes its speaker's entry of
\* agentMessages, whatever message put it there.
AdvanceClock ==
    /\ dateNow < EpochAtMount + MaxElapsed
    /\ dateNow' = dateNow + 1
    /\ currentTime' = IF Alive THEN currentTime + 1 ELSE currentTime
    /\ LET fired == {tm \in timers : tm.due <= dateNow'}
       IN  /\ timers' = timers \ fired
           /\ agentMessages' = IF Alive
                                THEN DeleteBubbles(agentMessages,
                                                   {tm.speaker : tm \in fired})
                                ELSE agentMessages
    /\ UNCHANGED <<phase, ws, effectWs, socket, connectionStatus, profilesReq,
                   availableProfiles, isRunning, messages, liveAgents, pendingStarts>>
    /\ Live("clock")

\* ---- the live visualizer runs without the replay scene ----
NoScene ==
    /\ agents = <<>>
    /\ interactions = <<>>
    /\ durationProp = Null
    /\ orbDuration = DefaultOrbDuration
    /\ time = 0
    /\ playing = FALSE
    /\ speed = InitialSpeed
    /\ speedRef = InitialSpeed
    /\ duration = MinDuration
    /\ positions = <<>>
    /\ rendered = {}
    /\ probeTime = Null
    /\ probeShown = <<>>

InitLive ==
    /\ Constructed
    /\ dateNow = EpochAtMount
    /\ NoScene
    /\ NoRender
    /\ NoViews
    /\ lastOp = "construct"
    /\ lastArg = 0

NextLive ==
    \/ MountEffect
    \/ Unmount
    \/ \E answer \in ProfileAnswers : ProfilesLoaded(answer)
    \/ ProfilesFailed
    \/ onopen
    \/ \E frame \in Frames : onmessage(frame)
    \/ onclose
    \/ onerror
    \/ startConversation
    \/ StartSucceeded
    \/ StartFailed
    \/ stopConversation

SpecLive == InitLive /\ [][NextLive]_vars

\* The bubble runs start in a running conversation: the profiles are loaded,
\* the socket is open and the start request has been answered.  The wall clock
\* advances while the feed delivers updates.
InitBubble ==
    /\ phase = "mounted"
    /\ ws = Some("websocket")
    /\ effectWs = Null
    /\ socket = "OPEN"
    /\ connectionStatus = "connected"
    /\ profilesReq = "done"
    /\ availableProfiles \in {Some(m) : m \in {pm \in ProfileMaps :
                                                  "person_alice" \in DOMAIN pm}}
    /\ isRunning = TRUE
    /\ messages = <<>>
    /\ rosterAtStart = RenameUser(<<UserAgent>>, availableProfiles)
    /\ liveAgents = StartRoster(rosterAtStart, availableProfiles[1])
    /\ pendingStarts = 0
    /\ agentMessages = <<>>
    /\ timers = {}
    /\ currentTime = 0
    /\ frameDropped = FALSE
    /\ dateNow = EpochAtMount
    /\ NoScene
    /\ NoRender
    /\ NoViews
    /\ lastOp = "start-ok"
    /\ lastArg = 0

NextBubble ==
    \/ \E frame \in Frames : onmessage(frame)
    \/ AdvanceClock
    \/ Unmount

SpecBubble == InitBubble /\ [][NextBubble]_vars

\* While the scene is mounted time passes and frames are rendered.
SpecBubbleFair == SpecBubble /\ WF_vars(AdvanceClock)

\* ---- Scene: the transit markers of the live messages ----
LiveOrbDuration == 4                           \* duration={4.0}, seconds

\* speakerAgent && otherAgents.length > 0, for one record of `messages`
HasOrbEndPoints(message) ==
    /\ \E i \in 1..Len(liveAgents) : liveAgents[i].name = message.speaker
    /\ \E i \in 1..Len(liveAgents) :
          liveAgents[i].name # message.speaker /\ liveAgents[i].isActive

\* messages.map(message => ... <MessageOrb bornAt={message.timestamp}
\* now={currentTime} duration={4.0} />): the positions in `messages` of the
\* records whose marker is in the rendered tree
LiveSceneOrbs ==
    IF ~Alive THEN {}
    ELSE {n \in 1..Len(messages) :
            /\ HasOrbEndPoints(messages[n])
            /\ MessageOrb(messages[n].timestamp, LiveOrbDuration, currentTime)}

(***************************************************************************)
(* Part III: what a render computes (circle layout, marker path, bubble).  *)
(***************************************************************************)
Computed(op) ==
    /\ lastOp' = op
    /\ lastArg' = 0
    /\ UNCHANGED sceneVars
    /\ UNCHANGED liveVars
    /\ UNCHANGED viewVars

AtRest == NoScene /\ NoLive /\ NoViews /\ lastOp = "props" /\ lastArg = 0

\* ---- ring points ----
\* Angles are counted in twelfths of a turn (TAU / 12).  The cosine and sine of
\* such an angle is (a + b * sqrt(3)) / 2 for integers a and b, held as
\* <<a, b>>; the representation of a number is unique.
TurnParts == 12

Cos12(k) ==
    LET j == k % TurnParts
    IN  CASE j = 0 -> <<2, 0>>
          [] j \in {1, 11} -> <<0, 1>>
          [] j \in {2, 10} -> <<1, 0>>
          [] j \in {3, 9} -> <<0, 0>>
          [] j \in {4, 8} -> <<-1, 0>>
          [] j \in {5, 7} -> <<0, -1>>
          [] j = 6 -> <<-2, 0>>

\* sin x = cos(x - TAU / 4)
Sin12(k) == Cos12(k + 9)

SurdScale(r, v) == <<r * v[1], r * v[2]>>

\* [Math.cos(angle) * r, y, Math.sin(angle) * r]
polarToVec3(r, angle, y) ==
    <<SurdScale(r, Cos12(angle)), <<2 * y, 0>>, SurdScale(r, Sin12(angle))>>

\* const angle = (i / n) * TAU, in twelfths of a turn (n divides 12)
SlotAngle(slot) == (slot.index * TurnParts) \div slot.count

\* useCircleLayout(agents, radius): map.set(a.id, polarToVec3(radius, angle))
CirclePoints(roster, radius) ==
    LET slots == useCircleLayout(roster)
    IN  [id \in DOMAIN slots |-> polarToVec3(radius, SlotAngle(slots[id]), 0)]

\* x^2 + z^2 of a point, as <<a, b>> for (a + b * sqrt(3)) / 4
NormSq4(p) ==
    <<p[1][1] * p[1][1] + 3 * p[1][2] * p[1][2]
        + p[3][1] * p[3][1] + 3 * p[3][2] * p[3][2],
      2 * p[1][1] * p[1][2] + 2 * p[3][1] * p[3][2]>>

\* inputs: rosters of distinct ids whose length divides 12, and the empty one
AgentIdPool == {"user", "person_alice", "agent_bob", "agent_carol", "agent_dan",
                "agent_eve"}
ExactCounts == {1, 2, 3, 4, 6}
RingRadius == 6
LayoutRadii == {RingRadius, 1}
LayoutRosters ==
    UNION { { l \in [1..n -> AgentIdPool] : \A i, j \in 1..n : l[i] = l[j] => i = j }
            : n \in ExactCounts \cup {0} }

InitLayout ==
    /\ AtRest
    /\ layoutAgents \in LayoutRosters
    /\ layoutRadius \in LayoutRadii
    /\ layoutMap = Null
    /\ NoOrb
    /\ NoBubble

RenderLayout ==
    /\ layoutMap = Null
    /\ layoutMap' = Some(CirclePoints(layoutAgents, layoutRadius))
    /\ UNCHANGED <<layoutAgents, layoutRadius, orbProps, orbPoint, bubbleMessage, bubble>>
    /\ Computed("layout")

NextLayout == RenderLayout

SpecLayout == InitLayout /\ [][NextLayout]_vars

\* ---- marker path ----
\* Coordinates and progress are rationals <<numerator, denominator>> in lowest
\* terms with a positive denominator.
RECURSIVE GCD(_, _)
GCD(a, b) == IF b = 0 THEN a ELSE GCD(b, a % b)

Abs(n) == IF n < 0 THEN 0 - n ELSE n

Q(n, d) ==
    LET g == GCD(Abs(n), Abs(d))
        sgn == IF d < 0 THEN 0 - 1 ELSE 1
    IN  <<(sgn * n) \div g, (sgn * d) \div g>>

QAdd(x, y) == Q(x[1] * y[2] + y[1] * x[2], x[2] * y[2])
QSub(x, y) == Q(x[1] * y[2] - y[1] * x[2], x[2] * y[2])
QMul(x, y) == Q(x[1] * y[1], x[2] * y[2])
QDiv(x, y) == Q(x[1] * y[2], x[2] * y[1])

\* a + (b - a) * t
lerp(a, b, t) == QAdd(a, QMul(QSub(b, a), t))

vec3Lerp(a, b, t) == <<lerp(a[1], b[1], t), lerp(a[2], b[2], t), lerp(a[3], b[3], t)>>

\* Mutant of bezier3: the straight line from a to d.
bezier3Chord(a, b, c, d, t) == vec3Lerp(a, d, t)

bezier3(a, b, c, d, t) ==
    LET ab == vec3Lerp(a, b, t)
        bc == vec3Lerp(b, c, t)
        cd == vec3Lerp(c, d, t)
        abbc == vec3Lerp(ab, bc, t)
        bccd == vec3Lerp(bc, cd, t)
    IN  vec3Lerp(abbc, bccd, t)

\* MessageOrb as rendered: null outside the transit, else <group position={p}>
MessageOrbElement(props) ==
    IF ~MessageOrb(props.bornAt, props.duration, props.now)
    THEN <<"null">>
    ELSE LET fromPos == props.fromPos
             toPos == props.toPos
             tNorm == Q(props.now - props.bornAt, props.duration)
             mid1 == << QDiv(QAdd(QMul(fromPos[1], Q(2, 1)), toPos[1]), Q(3, 1)),
                        props.height,
                        QDiv(QAdd(QMul(fromPos[3], Q(2, 1)), toPos[3]), Q(3, 1)) >>
             mid2 == << QDiv(QAdd(fromPos[1], QMul(toPos[1], Q(2, 1))), Q(3, 1)),
                        props.height,
                        QDiv(QAdd(fromPos[3], QMul(toPos[3], Q(2, 1))), Q(3, 1)) >>
         IN  <<"group", bezier3(fromPos, mid1, mid2, toPos, tNorm)>>

\* inputs: end points on the ground, the arc height, the times
OrbEndPoints == { <<Q(6, 1), Q(0, 1), Q(0, 1)>>, <<Q(0 - 3, 1), Q(0, 1), Q(5, 1)>>,
                  <<Q(1, 1), Q(0, 1), Q(0 - 2, 1)>>, <<Q(0, 1), Q(0, 1), Q(6, 1)>> }
DefaultHeight == Q(3, 2)                          \* height = 1.5
OrbHeights == {DefaultHeight, Q(2, 1)}
OrbBornAt == Sec(1)
OrbMargin == 1       \* how far outside the transit `now` may lie
OrbNows(d) == (OrbBornAt - OrbMargin)..(OrbBornAt + d + OrbMargin)

InitOrb ==
    /\ AtRest
    /\ orbProps \in { Some([fromPos |-> f, toPos |-> t, height |-> h,
                             bornAt |-> OrbBornAt, duration |-> d, now |-> n])
                       : f \in OrbEndPoints, t \in OrbEndPoints, h \in OrbHeights,
                         d \in OrbDurations, n \in OrbNows(Sec(4)) }
    /\ orbProps[1].now \in OrbNows(orbProps[1].duration)
    /\ orbPoint = Unrendered
    /\ NoLayout
    /\ NoBubble

RenderOrb ==
    /\ orbPoint = Unrendered
    /\ orbPoint' = MessageOrbElement(orbProps[1])
    /\ UNCHANGED <<layoutAgents, layoutRadius, layoutMap, orbProps, bubbleMessage, bubble>>
    /\ Computed("orb")

NextOrb == RenderOrb

SpecOrb == InitOrb /\ [][NextOrb]_vars

\* ---- speech bubble ----
\* Lengths of the bubble are in hundredths of a unit; a message is a sequence
\* of characters.
WidthPerChar == 6                     \* messageLength * 0.06
WidthBase == 160                      \* ... + 1.6
WidthCap == 580                       \* Math.min(..., 5.8)
TextLimit == 220                      \* currentMessage.length > 220
Ellipsis == <<".", ".", ".">>         \* + '...'

\* Mutant of bubbleWidth: no cap.
bubbleWidthUncapped(message) == Len(message) * WidthPerChar + WidthBase

\* const messageLength = currentMessage ? currentMessage.length : 0
\* const bubbleWidth = Math.min(messageLength * 0.06 + 1.6, 5.8)
bubbleWidth(message) == Min(Len(message) * WidthPerChar + WidthBase, WidthCap)

\* currentMessage.length > 220 ? currentMessage.substring(0, 220) + '...' : currentMessage
BubbleText(message) ==
    IF Len(message) > TextLimit
    THEN SubSeq(message, 1, TextLimit) \o Ellipsis
    ELSE message

\* AgentAvatar: the width, and the text of the bubble ({currentMessage && ...}:
\* an empty message shows no bubble)
AgentAvatar(message) ==
    [width |-> bubbleWidth(message),
     text |-> IF message # <<>> THEN Some(BubbleText(message)) ELSE Null]

\* inputs: the messages of every length up to MaxLength, written in one of
\* two patterns of three letters
MaxLength == 230
Letters == <<"a", "b", ".">>
Patterns == {1, 2}
MessageOf(len, pat) == [i \in 1..len |-> Letters[((i * pat) % 3) + 1]]

InitAvatar ==
    /\ AtRest
    /\ bubbleMessage \in {MessageOf(len, pat) : len \in 0..MaxLength, pat \in Patterns}
    /\ bubble = Null
    /\ NoLayout
    /\ NoOrb

RenderAvatar ==
    /\ bubble = Null
    /\ bubble' = Some(AgentAvatar(bubbleMessage))
    /\ UNCHANGED <<layoutAgents, layoutRadius, layoutMap, orbProps, orbPoint,
                   bubbleMessage>>
    /\ Computed("avatar")

NextAvatar == RenderAvatar

SpecAvatar == InitAvatar /\ [][NextAvatar]_vars

(***************************************************************************)
(* Part IV: the simulated interaction (AgentInteraction.tsx), the chat     *)
(* (ChatInterface.tsx) and the payment (PaymentModal, NetworkAccess.tsx).  *)
(***************************************************************************)
\* one of the three views is rendered, as constructed
InitViews ==
    NoScene /\ NoLive /\ NoRender /\ NoViews /\ lastOp = "construct" /\ lastArg = 0

\* a handler of one view ran; `others` is the state of the other two
View(op, arg, others) ==
    /\ lastOp' = op
    /\ lastArg' = arg
    /\ UNCHANGED <<sceneVars, liveVars, renderVars>>
    /\ UNCHANGED others

\* e.target.value: the texts of at most n characters out of `chars`
RECURSIVE Typed(_, _)
Typed(n, chars) ==
    IF n = 0 THEN {<<>>}
    ELSE Typed(n - 1, chars)
         \cup {Append(t, c) : t \in Typed(n - 1, chars), c \in chars}

\* ---- AgentInteraction ----
MaxTurnsInput == 2   \* largest value typed into the Max Turns input
MaxRuns == 2         \* most startConversation calls followed

\* agents.filter(agent => agent.isActive)
ActiveAgents(flags) == SelectSeq(<<"1", "2">>, LAMBDA id : flags[id])

\* history: stop or reset has been invoked since the run started
Interrupt(rs) == [r \in 1..Len(rs) |-> [rs[r] EXCEPT !.interrupted = TRUE]]

\* onChange={(e) => setMaxTurns(parseInt(e.target.value))}, disabled={isRunning}
setMaxTurns(n) ==
    /\ ~simRunning
    /\ maxTurns' = n
    /\ UNCHANGED <<simAgents, conversation, simRunning, currentTurn, isLoading,
                   compatibilityScore, runs>>
    /\ View("max-turns", 0, <<chatVars, paymentVars>>)

toggleAgent(agentId) ==
    /\ simAgents' = [simAgents EXCEPT ![agentId] = ~simAgents[agentId]]
    /\ UNCHANGED <<conversation, simRunning, currentTurn, maxTurns, isLoading,
                   compatibilityScore, runs>>
    /\ View("toggle", 0, <<chatVars, paymentVars>>)

\* startConversation up to its first await.  The start button is rendered
\* while !isRunning and enabled with two active agents; the loop reads maxTurns
\* and agents from the closure of the render that made the handler.
simStartConversation ==
    /\ ~simRunning
    /\ Len(ActiveAgents(simAgents)) >= 2
    /\ maxTurns <= MaxTurnsInput
    /\ Len(runs) < MaxRuns
    /\ simRunning' = TRUE
    /\ isLoading' = TRUE
    /\ conversation' = <<>>
    /\ currentTurn' = 1                        \* setCurrentTurn(0), then (turn + 1)
    /\ compatibilityScore' = Null
    /\ runs' = Append(runs, [turn |-> 0, agent |-> 1, maxTurns |-> maxTurns,
                             activeAgents |-> ActiveAgents(simAgents),
                             stage |-> "thinking", interrupted |-> FALSE])
    /\ UNCHANGED <<simAgents, maxTurns>>
    /\ View("sim-start", Len(runs) + 1, <<chatVars, paymentVars>>)

\* The 1500 ms timeout of run r resolves: the loop appends the turn of the
\* agent whose time it is and goes on to its next await, or leaves the loop
\* and starts the timeout of the score.  The loop tests no flag.
ThinkingDone(r) ==
    /\ r \in 1..Len(runs)
    /\ runs[r].stage = "thinking"
    /\ LET run == runs[r]
           turnData == [run |-> r, agentId |-> run.activeAgents[run.agent],
                        turnNumber |-> run.turn + 1]
           lastAgent == run.agent = Len(run.activeAgents)
           lastTurn == run.turn + 1 = run.maxTurns
       IN  /\ conversation' = Append(conversation, turnData)
           /\ currentTurn' = IF lastAgent /\ ~lastTurn THEN run.turn + 2
                             ELSE currentTurn
           /\ runs' = [runs EXCEPT ![r] =
                         IF ~lastAgent THEN [run EXCEPT !.agent = run.agent + 1]
                         ELSE IF ~lastTurn
                              THEN [run EXCEPT !.turn = run.turn + 1, !.agent = 1]
                              ELSE [run EXCEPT !.turn = run.turn + 1,
                                               !.stage = "scoring"]]
    /\ UNCHANGED <<simAgents, simRunning, maxTurns, isLoading, compatibilityScore>>
    /\ View("turn", r, <<chatVars, paymentVars>>)

\* setTimeout(() => { setCompatibilityScore(score); setIsLoading(false) }, 1000)
ScoreTimer(r) ==
    /\ r \in 1..Len(runs)
    /\ runs[r].stage = "scoring"
    /\ compatibilityScore' = Some("score")
    /\ isLoading' = FALSE
    /\ runs' = [runs EXCEPT ![r].stage = "done"]
    /\ UNCHANGED <<simAgents, conversation, simRunning, currentTurn, maxTurns>>
    /\ View("score", r, <<chatVars, paymentVars>>)

\* the stop button is rendered while isRunning
simStopConversation ==
    /\ simRunning
    /\ simRunning' = FALSE
    /\ isLoading' = FALSE
    /\ runs' = Interrupt(runs)
    /\ UNCHANGED <<simAgents, conversation, currentTurn, maxTurns, compatibilityScore>>
    /\ View("sim-stop", 0, <<chatVars, paymentVars>>)

resetConversation ==
    /\ conversation' = <<>>
    /\ currentTurn' = 0
    /\ compatibilityScore' = Null
    /\ simRunning' = FALSE
    /\ isLoading' = FALSE
    /\ runs' = Interrupt(runs)
    /\ UNCHANGED <<simAgents, maxTurns>>
    /\ View("sim-reset", 0, <<chatVars, paymentVars>>)

NextInteraction ==
    \/ \E n \in 1..MaxTurnsInput : setMaxTurns(n)
    \/ \E id \in {"1", "2"} : toggleAgent(id)
    \/ simStartConversation
    \/ \E r \in 1..MaxRuns : ThinkingDone(r)
    \/ \E r \in 1..MaxRuns : ScoreTimer(r)
    \/ simStopConversation
    \/ resetConversation

SpecInteraction == InitViews /\ [][NextInteraction]_vars

\* ---- ChatInterface ----
MaxInput == 2        \* longest text typed into the chat input
MaxSends == 2        \* most messages sent

RECURSIVE TrimStart(_)
TrimStart(text) ==
    IF text # <<>> /\ Head(text) = " " THEN TrimStart(Tail(text)) ELSE text

RECURSIVE TrimEnd(_)
TrimEnd(text) ==
    IF text # <<>> /\ text[Len(text)] = " "
    THEN TrimEnd(SubSeq(text, 1, Len(text) - 1))
    ELSE text

\* String.prototype.trim
trim(text) == TrimEnd(TrimStart(text))

\* onChange={(e) => setInputValue(e.target.value)}
setInputValue(text) ==
    /\ inputValue' = text
    /\ UNCHANGED <<chatMessages, isTyping, chatCalls, chatSent>>
    /\ View("input", 0, <<interactionVars, paymentVars>>)

\* callChatAPI: data.response, or the fallback text when the request fails
callChatAPI(outcome) ==
    IF outcome = "ok" THEN <<"response">> ELSE <<"fallback">>

\* handleSendMessage up to `await callChatAPI(userMessage.text)`
handleSendMessage ==
    /\ IF trim(inputValue) = <<>>
       THEN /\ UNCHANGED chatVars
            /\ View("send-blank", 0, <<interactionVars, paymentVars>>)
       ELSE /\ chatSent < MaxSends
            /\ chatMessages' = Append(chatMessages,
                                      [seq |-> chatSent + 1, isUser |-> TRUE,
                                       text |-> inputValue])
            /\ inputValue' = <<>>
            /\ isTyping' = TRUE
            /\ chatCalls' = chatCalls \cup {chatSent + 1}
            /\ chatSent' = chatSent + 1
            /\ View("send", 0, <<interactionVars, paymentVars>>)

\* handleSendMessage after the await: setIsTyping(false), the reply appended
ChatAnswered(n, outcome) ==
    /\ n \in chatCalls
    /\ isTyping' = FALSE
    /\ chatMessages' = Append(chatMessages,
                              [seq |-> n, isUser |-> FALSE,
                               text |-> callChatAPI(outcome)])
    /\ chatCalls' = chatCalls \ {n}
    /\ UNCHANGED <<inputValue, chatSent>>
    /\ View("reply", 0, <<interactionVars, paymentVars>>)

NextChat ==
    \/ \E text \in Typed(MaxInput, {" ", "a"}) : setInputValue(text)
    \/ handleSendMessage
    \/ \E n \in 1..MaxSends, outcome \in {"ok", "failed"} : ChatAnswered(n, outcome)

SpecChat == InitViews /\ [][NextChat]_vars

\* ---- PaymentModal in NetworkAccess ----
MaxField == 1        \* longest text typed into a field of the payment form

\* value.replace(/\s+/g, '').replace(/[^0-9]/gi, ''); the digit typed is "4"
RECURSIVE DigitsOnly(_)
DigitsOnly(value) ==
    IF value = <<>> THEN <<>>
    ELSE IF Head(value) = "4" THEN <<Head(value)>> \o DigitsOnly(Tail(value))
    ELSE DigitsOnly(Tail(value))

\* parts of four characters joined by ' '
RECURSIVE JoinParts(_)
JoinParts(match) ==
    IF Len(match) <= 4 THEN match
    ELSE SubSeq(match, 1, 4) \o <<" ">> \o JoinParts(SubSeq(match, 5, Len(match)))

formatCardNumber(value) ==
    LET v == DigitsOnly(value)
    IN  IF Len(v) >= 4 THEN JoinParts(SubSeq(v, 1, IF Len(v) < 16 THEN Len(v) ELSE 16))
        ELSE v

formatExpiryDate(value) ==
    LET v == DigitsOnly(value)
    IN  IF Len(v) >= 2
        THEN SubSeq(v, 1, 2) \o <<"/">> \o SubSeq(v, 3, IF Len(v) < 4 THEN Len(v) ELSE 4)
        ELSE v

\* the form is in the tree while the modal is open and shows no success
FormShown == ~hasAccess /\ showPaymentModal /\ ~paymentSuccess

\* onClick={() => setShowPaymentModal(true)}, in the locked view
OpenPaymentModal ==
    /\ ~hasAccess
    /\ showPaymentModal' = TRUE
    /\ UNCHANGED <<hasAccess, isProcessing, paymentSuccess, formData, payTimers,
                   submits>>
    /\ View("open", 0, <<interactionVars, chatVars>>)

\* onClose: the X button or a click on the backdrop
ClosePaymentModal ==
    /\ ~hasAccess
    /\ showPaymentModal
    /\ showPaymentModal' = FALSE
    /\ UNCHANGED <<hasAccess, isProcessing, paymentSuccess, formData, payTimers,
                   submits>>
    /\ View("close", 0, <<interactionVars, chatVars>>)

\* the onChange handlers of the four inputs: setFormData with the formatted
\* card number or expiry date, handleInputChange for the cvv and the name
handleInputChange(field, value) ==
    /\ FormShown
    /\ formData' = [formData EXCEPT ![field] =
                        IF field = "cardNumber" THEN formatCardNumber(value)
                        ELSE IF field = "expiryDate" THEN formatExpiryDate(value)
                        ELSE value]
    /\ UNCHANGED <<showPaymentModal, hasAccess, isProcessing, paymentSuccess,
                   payTimers, submits>>
    /\ View("field", 0, <<interactionVars, chatVars>>)

\* handleSubmit: the four inputs are `required`, the button is disabled while
\* isProcessing
handleSubmit ==
    /\ FormShown
    /\ ~isProcessing
    /\ \A field \in FormFields : formData[field] # <<>>
    /\ isProcessing' = TRUE
    /\ payTimers' = payTimers \cup {"processing"}
    /\ submits' = submits + 1
    /\ UNCHANGED <<showPaymentModal, hasAccess, paymentSuccess, formData>>
    /\ View("submit", 0, <<interactionVars, chatVars>>)

\* Mutant of PaymentProcessed: the callback is invoked as soon as the payment
\* is processed.
PaymentProcessedUnlocking ==
    /\ "processing" \in payTimers
    /\ isProcessing' = FALSE
    /\ paymentSuccess' = TRUE
    /\ hasAccess' = TRUE
    /\ payTimers' = (payTimers \ {"processing"}) \cup {"success"}
    /\ UNCHANGED <<showPaymentModal, formData, submits>>
    /\ View("processed", 0, <<interactionVars, chatVars>>)

\* the outer timeout, 2000 ms after the submit
PaymentProcessed ==
    /\ "processing" \in payTimers
    /\ isProcessing' = FALSE
    /\ paymentSuccess' = TRUE
    /\ payTimers' = (payTimers \ {"processing"}) \cup {"success"}
    /\ UNCHANGED <<showPaymentModal, hasAccess, formData, submits>>
    /\ View("processed", 0, <<interactionVars, chatVars>>)

\* the inner timeout, 2000 ms later: onPaymentSuccess(); onClose();
\* setPaymentSuccess(false); setFormData({...})
PaymentShown ==
    /\ "success" \in payTimers
    /\ hasAccess' = TRUE                       \* handlePaymentSuccess
    /\ showPaymentModal' = FALSE
    /\ paymentSuccess' = FALSE
    /\ formData' = EmptyForm
    /\ payTimers' = payTimers \ {"success"}
    /\ UNCHANGED <<isProcessing, submits>>
    /\ View("unlocked", 0, <<interactionVars, chatVars>>)

NextPayment ==
    \/ OpenPaymentModal
    \/ ClosePaymentModal
    \/ \E field \in FormFields, value \in Typed(MaxField, {"4", "x"}) :
          handleInputChange(field, value)
    \/ handleSubmit
    \/ PaymentProcessed
    \/ PaymentShown

\* A timeout that has been set runs.
SpecPayment ==
    /\ InitViews
    /\ [][NextPayment]_vars
    /\ WF_vars(PaymentProcessed)
    /\ WF_vars(PaymentShown)

(***************************************************************************)
(* Claims about the playback clock and the transit markers.                *)
(* A step is recognised by the handler name it leaves in lastOp.           *)
(***************************************************************************)

\* C1: after any sequence of play, pause, seek(t) with arbitrary t, speed
\* changes and frame ticks with delta >= 0, the current time lies in
\* [0, duration].
ClockWithinDuration == 0 <= time /\ time <= duration

ClockHeldAtCeiling ==
    lastOp = "tick" /\ playing /\ time = duration /\ speedRef # InitialSpeed

\* C2: while playing, a frame tick with delta d sets the time to
\* min(time + d * multiplier, duration), where the multiplier is the one the
\* clock holds in speedRef; the playing flag stays true, and once the time
\* equals duration further ticks leave it there (no stop, no reset, no loop).
TickAdvancesToCeiling ==
    [][\A d \in 0..MaxDelta :
         (lastOp' = "tick" /\ playing /\ Tick(d)) =>
            /\ time' = Min(time + d * speedRef, duration)
            /\ playing'
            /\ (time = duration => time' = duration)]_vars

TickedAtCeiling ==
    lastOp = "tick" /\ playing /\ time = duration /\ speedRef = InitialSpeed

\* C3: seek(t) sets the time to t clamped into [0, duration], for t below 0,
\* in range and above duration, playing or paused, and leaves the playing
\* flag alone.
SeekClampsIntoRange ==
    [][lastOp' = "seek" =>
         /\ time' = (IF lastArg' < 0 THEN 0
                     ELSE IF lastArg' > duration THEN duration ELSE lastArg')
         /\ playing' = playing]_vars

SoughtWhilePaused ==
    lastOp = "seek" /\ lastArg > duration /\ ~playing /\ durationProp # Null

\* C4: play() makes the clock playing and pause() makes it paused, neither
\* changes the time; while paused a frame tick leaves the time unchanged.
PlayPauseKeepTime ==
    [][/\ (lastOp' = "play" => (playing' /\ time' = time))
       /\ (lastOp' = "pause" => (~playing' /\ time' = time))
       /\ ((lastOp' = "tick" /\ ~playing) => time' = time)]_vars

TickedWhilePaused ==
    lastOp = "tick" /\ ~playing /\ 0 < time /\ time < duration

\* C5: changing the speed leaves the elapsed time unchanged, and the first
\* frame tick after the change (and every later one) advances the time by
\* delta times the new speed.
SpeedChangeAppliesToNextTick ==
    [][/\ (lastOp' = "setSpeed" => time' = time)
       /\ \A d \in 0..MaxDelta :
            (lastOp' = "tick" /\ playing /\ Tick(d))
               => time' = Min(time + d * speed, duration)]_vars

\* C6: a message born at t0 with transit duration d > 0, whose endpoints are on
\* the ring, has its marker rendered exactly when t0 <= time <= t0 + d.
MarkerShownExactlyInTransit ==
    \A i \in 1..Len(interactions) :
        LET m == interactions[i]
        IN  (m.from \in DOMAIN positions /\ m.to \in DOMAIN positions /\ orbDuration > 0)
            => (m.id \in rendered <=> (m.t <= time /\ time <= m.t + orbDuration))

MarkerShownOnArrival ==
    \E i \in 1..Len(interactions) :
        /\ interactions[i].id \in rendered
        /\ time = interactions[i].t + orbDuration

\* C7: the visible markers depend on the event list and the clock alone: what
\* is shown when the clock comes back to a time equals what was shown the first
\* time it was there, whatever happened in between, and a seek to a time before
\* a message's bornAt hides that message's marker at once.
ReplayDeterminism ==
    /\ [](Len(probeShown) = 2 => probeShown[1] = probeShown[2])
    /\ [][lastOp' = "seek" =>
            \A i \in 1..Len(interactions) :
                time' < interactions[i].t => interactions[i].id \notin rendered']_vars

ProbeTimeRevisited ==
    /\ Len(probeShown) = 2
    /\ probeShown[2] # {}
    /\ lastOp = "seek"
    /\ \E i \in 1..Len(interactions) :
          interactions[i].t > time /\ interactions[i].from \in DOMAIN positions

(***************************************************************************)
(* Claims about the live feed adapter.                                     *)
(***************************************************************************)

\* C8: the connection status is always connecting, connected or disconnected;
\* it changes only disconnected -> connecting (the connect call), connecting ->
\* connected (socket open) and connecting/connected -> disconnected (socket
\* close or error); once disconnected after a connection attempt it stays
\* disconnected, no reconnect being attempted.
ConnectionLifecycle ==
    /\ [](connectionStatus \in {"connecting", "connected", "disconnected"})
    /\ [][connectionStatus' # connectionStatus =>
            \/ /\ connectionStatus = "disconnected"
               /\ connectionStatus' = "connecting"
               /\ lastOp' = "connect"
            \/ /\ connectionStatus = "connecting"
               /\ connectionStatus' = "connected"
               /\ lastOp' = "onopen"
            \/ /\ connectionStatus \in {"connecting", "connected"}
               /\ connectionStatus' = "disconnected"
               /\ lastOp' \in {"onclose", "onerror"}]_vars
    /\ [][(ws # Null /\ connectionStatus = "disconnected")
            => connectionStatus' = "disconnected"]_vars

DisconnectedAfterDrop ==
    /\ lastOp = "onclose"
    /\ Alive
    /\ connectionStatus = "disconnected"
    /\ socket = "CLOSED"
    /\ isRunning

\* C9: a conversation_update whose speaker is "system" appends nothing to the
\* message sequence and changes no agent's activity flag; with is_finished it
\* clears the running flag, without it nothing changes at all.
SystemUpdateIsControlOnly ==
    [][(Alive /\ lastOp' \in {"system", "system-finished"}) =>
          /\ messages' = messages
          /\ Len(liveAgents') = Len(liveAgents)
          /\ \A i \in 1..Len(liveAgents) :
                liveAgents'[i].isActive = liveAgents[i].isActive
          /\ (lastOp' = "system-finished" => ~isRunning')
          /\ (lastOp' = "system" => UNCHANGED liveVars)]_vars

FinishedBySystemLine ==
    /\ lastOp = "system-finished"
    /\ Alive
    /\ ~isRunning
    /\ Len(messages) > 0
    /\ \E i \in 1..Len(liveAgents) : liveAgents[i].isActive

\* C10: on every conversation_update whose speaker is not "system", exactly one
\* record with id conversation_id + "_" + turn_number is appended at the end of
\* the message sequence, and afterwards the agent named as speaker and the
\* local user (id 'user') are both active, also after the user's display name
\* has been replaced by the name of the 'my_agent' profile.
ChatUpdateAppendsAndActivates ==
    [][\A f \in Frames :
         (Alive /\ HandledAs(f) = "chat" /\ onmessage(f)) =>
            /\ Len(messages') = Len(messages) + 1
            /\ SubSeq(messages', 1, Len(messages)) = messages
            /\ messages'[Len(messages')].id
                  = f.conversation_id \o "_" \o ToString(f.turn_number)
            /\ \A i \in 1..Len(liveAgents') :
                  (liveAgents'[i].name = f.speaker \/ liveAgents'[i].id = "user")
                     => liveAgents'[i].isActive]_vars

\* C11: startConversation sends the start request only when the connection
\* status is connected; called while the status is connecting or disconnected
\* it does nothing: no request is sent then or later, and the running flag,
\* the messages and the roster stay as they are.
StartOnlyWhenConnected ==
    [][/\ (pendingStarts' > pendingStarts
              => (lastOp' = "start" /\ connectionStatus = "connected"))
       /\ ((lastOp' \in {"start", "start-threw", "start-ignored"}
              /\ connectionStatus # "connected")
             => /\ lastOp' = "start-ignored"
                /\ UNCHANGED <<isRunning, messages, liveAgents, pendingStarts>>)]_vars

StartIgnoredWhileDisconnected ==
    /\ lastOp = "start-ignored"
    /\ connectionStatus = "disconnected"
    /\ ~isRunning
    /\ Len(messages) > 0
    /\ pendingStarts = 0

\* C12: when the start request fails, the running flag is false again and no
\* partial state is left: every agent of the roster was in the roster before
\* startConversation was called, and the failure appends no message.
StartFailureLeavesNoPartialState ==
    [][(lastOp' = "start-failed" /\ Alive) =>
          /\ ~isRunning'
          /\ \A i \in 1..Len(liveAgents') :
                \E j \in 1..Len(rosterAtStart') :
                    rosterAtStart'[j].id = liveAgents'[i].id
          /\ messages' = messages]_vars

\* Scene: currentMessage={agentMessages[agent.name] || null}
currentMessage(agent) ==
    IF agent.name \in DOMAIN agentMessages /\ agentMessages[agent.name] # ""
    THEN Some(agentMessages[agent.name]) ELSE Null

\* the index in `messages` of the latest record spoken by `name`, or 0
LatestBy(name) ==
    LET own == {i \in 1..Len(messages) : messages[i].speaker = name}
    IN  IF own = {} THEN 0 ELSE CHOOSE i \in own : \A j \in own : j <= i

\* C13: speech bubble, last message wins: an agent's bubble shows the agent's
\* most recent message from its arrival until 5 seconds of wall-clock time
\* after that arrival and is then cleared; the timer of an earlier message
\* never removes the bubble of a newer one before the newer one's 5 seconds
\* have passed.
BubbleLastMessageWins ==
    Alive =>
      \A a \in 1..Len(liveAgents) :
          LET k == LatestBy(liveAgents[a].name)
          IN  k > 0 =>
                IF dateNow < messages[k].timestamp + BubbleSeconds
                THEN currentMessage(liveAgents[a]) = Some(messages[k].message)
                ELSE currentMessage(liveAgents[a]) = Null

\* C14: when the visualizer is unmounted after connectWebSocket has created a
\* socket, the teardown closes that socket, whether it is still connecting or
\* already open.
UnmountClosesSocket ==
    [][(lastOp' = "unmount" /\ ws # Null /\ socket \in {"CONNECTING", "OPEN"})
          => socket' \notin {"CONNECTING", "OPEN"}]_vars

\* C15: a frame that cannot be parsed, or whose type is not
\* "conversation_update", is dropped: the messages, the roster, the running
\* flag and the connection status are unchanged and the socket stays open; a
\* conversation_update that comes after a dropped frame is processed as usual
\* (its record appended, the activity flags set from its speaker).
BadFrameIsDropped ==
    [][/\ (lastOp' = "dropped"
              => /\ UNCHANGED <<messages, liveAgents, isRunning, connectionStatus>>
                 /\ socket' = "OPEN")
       /\ ((frameDropped /\ Alive /\ lastOp' = "chat")
              => /\ Len(messages') = Len(messages) + 1
                 /\ SubSeq(messages', 1, Len(messages)) = messages
                 /\ liveAgents'
                       = MarkActive(liveAgents, messages'[Len(messages')].speaker))]_vars

ChatAfterDroppedFrame ==
    /\ lastOp = "chat"
    /\ frameDropped
    /\ Alive
    /\ isRunning
    /\ Len(messages) = 1
    /\ \E i \in 1..Len(liveAgents) :
          liveAgents[i].name = messages[1].speaker /\ liveAgents[i].isActive

\* C16: between two resets (startConversation calls) the message sequence
\* changes only by one record appended at its end per non-system update:
\* the records already there keep their content and their order, which is the
\* order of delivery; stopConversation leaves the sequence alone.
MessagesAppendOnly ==
    [][/\ (messages' # messages =>
              \/ (lastOp' \in {"start", "start-threw"} /\ messages' = <<>>)
              \/ /\ lastOp' = "chat"
                 /\ Len(messages') = Len(messages) + 1
                 /\ SubSeq(messages', 1, Len(messages)) = messages)
       /\ ((lastOp' = "chat" /\ Alive) => Len(messages') = Len(messages) + 1)
       /\ (lastOp' = "stop" => messages' = messages)]_vars

StoppedWithMessagesKept ==
    /\ lastOp = "stop"
    /\ Len(messages) = 2
    /\ messages[1].turnNumber > messages[2].turnNumber

\* C17: the records of the message sequence have pairwise distinct ids,
\* whatever conversation updates have come in.
MessageIdsUnique ==
    \A i, j \in 1..Len(messages) : messages[i].id = messages[j].id => i = j

(***************************************************************************)
(* Claims about what a render computes.                                    *)
(***************************************************************************)

\* C18: for a roster of N >= 1 agents with distinct ids the circle layout gives
\* N pairwise distinct points, each at distance radius from the origin with
\* y = 0, the agent at index i at angle 2*pi*i/N; a single agent lies at angle
\* 0, and an empty or single-agent roster is laid out without a division by
\* zero.
CircleLayoutOnRing ==
    layoutMap # Null =>
      LET pts == layoutMap[1]
          N == Len(layoutAgents)
          r == layoutRadius
          at(i) == pts[layoutAgents[i]]
      IN  /\ DOMAIN pts = {layoutAgents[i] : i \in 1..N}
          /\ \A i \in 1..N :
                /\ at(i) = << SurdScale(r, Cos12((TurnParts \div N) * (i - 1))),
                              <<0, 0>>,
                              SurdScale(r, Sin12((TurnParts \div N) * (i - 1))) >>
                /\ NormSq4(at(i)) = <<4 * r * r, 0>>
          /\ \A i, j \in 1..N : at(i) = at(j) => i = j
          /\ N = 1 => at(1) = << <<2 * r, 0>>, <<0, 0>>, <<0, 0>> >>

SixAgentsLaidOut ==
    /\ layoutMap # Null
    /\ Len(layoutAgents) = 6
    /\ layoutRadius = RingRadius
    /\ layoutMap[1][layoutAgents[4]] = << <<-12, 0>>, <<0, 0>>, <<0, 0>> >>

\* C19: the marker at normalized progress t is the cubic Bezier point of the
\* control polygon (from, mid1, mid2, to), mid1 = (2*from + to)/3 and
\* mid2 = (from + 2*to)/3 in x and z and both at the arc height in y: the
\* nested interpolation equals (1-t)^3*a + 3(1-t)^2*t*b + 3(1-t)*t^2*c + t^3*d
\* in every component, and at time t0 + d/2 the point is (a + 3b + 3c + d)/8.
MarkerOnBezierCurve ==
    orbPoint[1] = "group" =>
      LET props == orbProps[1]
          a == props.fromPos
          d == props.toPos
          third(x, y) == Q(2 * x[1] * y[2] + y[1] * x[2], 3 * x[2] * y[2])
          b == <<third(a[1], d[1]), props.height, third(a[3], d[3])>>
          c == <<third(d[1], a[1]), props.height, third(d[3], a[3])>>
          t == Q(props.now - props.bornAt, props.duration)
          u == QSub(Q(1, 1), t)
          term(w, x, y, z, v) == QMul(QMul(QMul(QMul(w, x), y), z), v)
          explicit(k) ==
              QAdd(QAdd(term(Q(1, 1), u, u, u, a[k]), term(Q(3, 1), u, u, t, b[k])),
                   QAdd(term(Q(3, 1), u, t, t, c[k]), term(Q(1, 1), t, t, t, d[k])))
          middle(k) ==
              QDiv(QAdd(QAdd(a[k], QMul(Q(3, 1), b[k])),
                        QAdd(QMul(Q(3, 1), c[k]), d[k])), Q(8, 1))
      IN  /\ \A k \in 1..3 : orbPoint[2][k] = explicit(k)
          /\ (2 * (props.now - props.bornAt) = props.duration)
                => \A k \in 1..3 : orbPoint[2][k] = middle(k)

MarkerAtMidTransit ==
    /\ orbPoint[1] = "group"
    /\ 2 * (orbProps[1].now - orbProps[1].bornAt) = orbProps[1].duration
    /\ orbProps[1].fromPos # orbProps[1].toPos
    /\ orbProps[1].height = DefaultHeight
    /\ orbPoint[2][2] = Q(9, 8)

\* C20: bounded bubble: for a message of length L the bubble width is
\* min(0.06*L + 1.6, 5.8), so never above 5.8, and the text shown is the
\* message itself when L <= 220 and otherwise its first 220 characters
\* followed by an ellipsis.
BubbleBounded ==
    bubble # Null =>
      LET L == Len(bubbleMessage)
          shown == bubble[1].text
      IN  /\ bubble[1].width = (IF 6 * L + 160 <= 580 THEN 6 * L + 160 ELSE 580)
          /\ bubble[1].width <= 580
          /\ (1 <= L /\ L <= 220) => shown = Some(bubbleMessage)
          /\ L > 220 =>
                /\ shown # Null
                /\ Len(shown[1]) = 223
                /\ \A i \in 1..220 : shown[1][i] = bubbleMessage[i]
                /\ \A i \in 221..223 : shown[1][i] = "."

LongMessageCut ==
    /\ bubble # Null
    /\ Len(bubbleMessage) = TextLimit + 1
    /\ bubble[1].width = WidthCap
    /\ bubble[1].text # Some(bubbleMessage)

(***************************************************************************)
(* Claims about the scene duration, the roster and the timers.             *)
(***************************************************************************)

\* C21 (as stated): without an override the total duration is the largest
\* event timestamp plus the trailing margin of 3 seconds, for every non-empty
\* event list; with an override it is the override.
DurationIsMaxPlusMargin ==
    /\ durationProp # Null => duration = durationProp[1]
    /\ (durationProp = Null /\ interactions # <<>>) =>
          /\ \A i \in 1..Len(interactions) : duration >= interactions[i].t + Sec(3)
          /\ \E i \in 1..Len(interactions) : duration = interactions[i].t + Sec(3)

\* C21 (amended): without an override the total duration is the larger of 6
\* seconds and the largest event timestamp plus 3 seconds, for every
\* non-empty event list; with an override it is the override.
DurationIsFlooredMaxPlusMargin ==
    /\ durationProp # Null => duration = durationProp[1]
    /\ (durationProp = Null /\ interactions # <<>>) =>
          /\ duration >= Sec(6)
          /\ \A i \in 1..Len(interactions) : duration >= interactions[i].t + Sec(3)
          /\ \/ duration = Sec(6)
             \/ \E i \in 1..Len(interactions) : duration = interactions[i].t + Sec(3)

DurationAboveFloor ==
    /\ durationProp = Null
    /\ Len(interactions) = 2
    /\ duration = Sec(7)
    /\ time = duration

\* C22: a conversation update that names one agent of the roster as speaker
\* leaves the activity flag of every other agent that is not the local user
\* as it was before the update.
OtherAgentsFlagsUntouched ==
    [][(lastOp' = "chat" /\ messages' # messages) =>
          LET speaker == messages'[Len(messages')].speaker
          IN  (\E j \in 1..Len(liveAgents) : liveAgents[j].name = speaker) =>
                \A i \in 1..Len(liveAgents) :
                    (liveAgents[i].id # "user" /\ liveAgents[i].name # speaker) =>
                        liveAgents'[i].isActive = liveAgents[i].isActive]_vars

\* C23: once the scene is unmounted no bubble timer is pending: every timer
\* the bubble effect has started is cancelled by the unmount.
BubbleTimersCancelledOnUnmount ==
    phase = "unmounted" => timers = {}

\* C24: no agent is deleted from the roster: in every step every agent id of
\* the roster is still in the roster afterwards; the agent ids are pairwise
\* distinct and the first agent is the local user, id 'user'.
RosterNeverLosesAgents ==
    [][/\ \A i \in 1..Len(liveAgents) :
             \E j \in 1..Len(liveAgents') : liveAgents'[j].id = liveAgents[i].id
       /\ \A i, j \in 1..Len(liveAgents') :
             i # j => liveAgents'[i].id # liveAgents'[j].id
       /\ Len(liveAgents') >= 1
       /\ liveAgents'[1].id = "user"]_vars

\* a start repeated on a roster that already holds the partner
RepeatedStartKeepsRoster ==
    /\ lastOp = "start"
    /\ Len(rosterAtStart) = 2
    /\ Len(liveAgents) = 2
    /\ liveAgents[2].id = "person_alice"

\* C25: when 'person_alice' is not in the loaded profile mapping, or no
\* mapping was loaded, startConversation changes nothing in the roster,
\* raises no exception, and leaves the running flag true only with a start
\* request sent.
StartSkipsMissingProfile ==
    [][(/\ lastOp' \in {"start", "start-threw"}
        /\ \/ availableProfiles = Null
           \/ "person_alice" \notin DOMAIN availableProfiles[1]) =>
          /\ liveAgents' = liveAgents
          /\ lastOp' # "start-threw"
          /\ isRunning' => pendingStarts' = pendingStarts + 1]_vars

PaymentFlowOrdered ==
    /\ [][/\ lastOp' = "submit" =>
               (isProcessing' /\ ~paymentSuccess' /\ ~hasAccess')
          /\ (paymentSuccess' /\ ~paymentSuccess) =>
               (isProcessing /\ ~isProcessing' /\ ~hasAccess')
          /\ (hasAccess' /\ ~hasAccess) =>
               (paymentSuccess /\ ~isProcessing /\ ~showPaymentModal')]_vars
    /\ [](hasAccess => submits > 0)
    /\ [](submits > 0 => <>hasAccess)

PaymentUnlocked ==
    /\ lastOp = "unlocked"
    /\ hasAccess
    /\ submits = 1
    /\ ~showPaymentModal

\* C28: once stopConversation or resetConversation has been invoked while a
\* simulated conversation is in progress, that run appends no further turn:
\* after a reset the conversation stays empty until the next start, and the
\* turns of a new run are never interleaved with turns of an earlier run.
NoTurnAfterStopOrReset ==
    [][lastOp' = "turn" =>
          /\ ~runs[lastArg'].interrupted
          /\ \A i \in 1..Len(conversation') : conversation'[i].run = lastArg']_vars

\* C29: a started conversation terminates: when a run that no user action
\* interrupted has appended its maxTurns rounds and set the score, the loading
\* flag is false, the score is set and the running flag is false again.
StartedConversationTerminates ==
    \A r \in 1..Len(runs) :
        (runs[r].stage = "done" /\ ~runs[r].interrupted) =>
            /\ ~isLoading
            /\ compatibilityScore # Null
            /\ ~simRunning

\* C30: in the chat the typing flag is true whenever a sent message still
\* awaits its reply; every sent message is non-blank and is followed by
\* exactly one AI reply, appended after it, once its request has been
\* answered (none before); a blank input sends nothing.
ChatTypingAndReplies ==
    /\ chatCalls # {} => isTyping
    /\ \A i \in 1..Len(chatMessages) :
          chatMessages[i].isUser =>
             LET n == chatMessages[i].seq
                 replies == {j \in 1..Len(chatMessages) :
                               ~chatMessages[j].isUser /\ chatMessages[j].seq = n}
             IN  /\ trim(chatMessages[i].text) # <<>>
                 /\ \A j \in replies : j > i
                 /\ Cardinality(replies) = IF n \in chatCalls THEN 0 ELSE 1

====
